---- MODULE Spec2Model ----
(***************************************************************************)
(* State-machine model of the Accesly wallet contract                      *)
(* (contracts/accountAbstraction/src/lib.rs): instance storage with the    *)
(* three slots Owner / EmailHash / Nonce, the published event log, and one *)
(* action per public contract function.  Every contract call runs to       *)
(* completion as one step (the host serializes invocations).               *)
(*                                                                         *)
(* Signatures are modelled by an ideal scheme: a 64-byte signature value   *)
(* is either the one produced by a key over a message, or garbage, and the *)
(* verification oracle accepts exactly the (key, message) a signature was  *)
(* produced for.  A failing ed25519_verify traps the invocation.           *)
(***************************************************************************)
EXTENDS Integers, Sequences, FiniteSets, TLC

VARIABLES storage, events, last, accepted, inits, calls

vars == <<storage, events, last, accepted, inits, calls>>

(***************************************************************************)
(* Sizes and bounds                                                        *)
(***************************************************************************)
\* u64::MAX, scaled down so that the overflow of the nonce is reachable.
U64_MAX == 3
N32 == 32
U64_BYTES == 8
BYTE_BASE == 256

\* enum Error
AlreadyInitialized == 1
NotInitialized == 2
InvalidOwner == 3
InvalidEmailHash == 4
InvalidSignature == 5
InvalidNonce == 6
SameOwner == 7
Unauthorized == 8
ReplayAttack == 9

\* enum DataKey
DataKey == {"Owner", "EmailHash", "Nonce"}

(***************************************************************************)
(* Values                                                                  *)
(***************************************************************************)
\* Option<T>: the empty sequence is None, <<v>> is Some(v).
None == <<>>
Some(v) == <<v>>
IsSome(o) == Len(o) = 1
Unwrap(o) == o[1]

\* Result<T, Error> of a call, and the host trap of a panicking call.
Ok(v) == [kind |-> "ok", code |-> 0, val |-> <<v>>]
Err(e) == [kind |-> "err", code |-> e, val |-> <<>>]
Trap == [kind |-> "trap", code |-> 0, val |-> <<>>]
Unit == "unit"

Fill(b) == [i \in 1..N32 |-> b]
LastOnly(b) == [i \in 1..N32 |-> IF i = N32 THEN b ELSE 0]
Zero32 == Fill(0)
KeyA == Fill(1)
KeyB == LastOnly(7)
HashE == Fill(2)

\* The 32-byte inputs the calls are tried with: the all-zero sentinel, a
\* value with every byte set and a value whose only non-zero byte is the last.
BytesN32 == {Zero32, KeyA, KeyB}
NonZeroKeys == BytesN32 \ {Zero32}
EmailHashes == {Zero32, HashE}
\* Payloads of __check_auth; one of them has the bytes of a key.
Payloads == {Zero32, KeyA}

\* b"update_owner"
UPDATE_OWNER_TAG == <<117, 112, 100, 97, 116, 101, 95, 111, 119, 110, 101, 114>>

\* u64::to_be_bytes: the 8 base-256 digits, most significant first.
RECURSIVE be_digits(_, _)
be_digits(n, k) ==
    IF k = 0 THEN <<>> ELSE Append(be_digits(n \div BYTE_BASE, k - 1), n % BYTE_BASE)

to_be_bytes(n) == be_digits(n, U64_BYTES)

\* Variant: u64::wrapping_add(1).
wrapping_add_1(n) == Some((n + 1) % (U64_MAX + 1))

\* u64::checked_add(1)
checked_add_1(n) == IF n + 1 > U64_MAX THEN None ELSE Some(n + 1)

\* Variant: the predicate is inverted (any byte is non-zero).
is_zero_bytes_inverted(bytes) == \E i \in 1..Len(bytes) : bytes[i] # 0

is_zero_bytes(bytes) == \A i \in 1..Len(bytes) : bytes[i] = 0

(***************************************************************************)
(* Signature oracle                                                        *)
(***************************************************************************)
Sign(key, msg) == [signer |-> key, msg |-> msg]
Garbage == [signer |-> <<>>, msg |-> <<>>]

ed25519_verify(public_key, message, signature) ==
    signature.signer = public_key /\ signature.msg = message

(***************************************************************************)
(* Instance storage, events, outcomes of a call                            *)
(***************************************************************************)
EmptyStorage == [k \in DataKey |-> None]
storage_has(st, key) == IsSome(st[key])
storage_get(st, key) == st[key]
storage_set(st, key, v) == [st EXCEPT ![key] = Some(v)]

WalletCreatedEvent(owner, email_hash) ==
    [topic |-> "wallet_created", owner |-> owner, email_hash |-> email_hash]
AuthSuccessEvent(owner, nonce) ==
    [topic |-> "auth_success", owner |-> owner, nonce |-> nonce]
KeyRotatedEvent(old_owner, new_owner, nonce) ==
    [topic |-> "key_rotated", old_owner |-> old_owner, new_owner |-> new_owner,
     nonce |-> nonce]

\* What one invocation did: the storage it leaves, the events it published,
\* its result, the oracle consultations it made and the number of times it
\* entered get_and_increment_nonce.
Outcome(st, ev, res, oracle, consumes) ==
    [st |-> st, ev |-> ev, res |-> res, oracle |-> oracle, consumes |-> consumes]

\* One consultation of the oracle; ok = FALSE is the panic of the call.
Query(public_key, message, signature, ok) ==
    [key |-> public_key, msg |-> message, sig |-> signature, ok |-> ok]

\* Variant: the outcome of the verification is discarded.
verify_ed25519_signature_ignored(public_key, message, signature) ==
    Query(public_key, message, signature, TRUE)

verify_ed25519_signature(public_key, message, signature) ==
    Query(public_key, message, signature,
          ed25519_verify(public_key, message, signature))

(***************************************************************************)
(* The contract functions, as functions of the instance storage            *)
(***************************************************************************)
\* Variant: the already-initialized guard is missing.
init_call_unguarded(st, owner, email_hash) ==
    IF is_zero_bytes(owner) THEN Outcome(st, <<>>, Err(InvalidOwner), <<>>, 0)
    ELSE IF is_zero_bytes(email_hash) THEN Outcome(st, <<>>, Err(InvalidEmailHash), <<>>, 0)
    ELSE LET s1 == storage_set(st, "Owner", owner)
             s2 == storage_set(s1, "EmailHash", email_hash)
             s3 == storage_set(s2, "Nonce", 0)
         IN  Outcome(s3, <<WalletCreatedEvent(owner, email_hash)>>, Ok(Unit), <<>>, 0)

\* Variant: the email hash is not validated.
init_call_email_unchecked(st, owner, email_hash) ==
    IF storage_has(st, "Owner") THEN Outcome(st, <<>>, Err(AlreadyInitialized), <<>>, 0)
    ELSE IF is_zero_bytes(owner) THEN Outcome(st, <<>>, Err(InvalidOwner), <<>>, 0)
    ELSE LET s1 == storage_set(st, "Owner", owner)
             s2 == storage_set(s1, "EmailHash", email_hash)
             s3 == storage_set(s2, "Nonce", 0)
         IN  Outcome(s3, <<WalletCreatedEvent(owner, email_hash)>>, Ok(Unit), <<>>, 0)

\* Variant: the nonce starts at 1.
init_call_nonce_one(st, owner, email_hash) ==
    IF storage_has(st, "Owner") THEN Outcome(st, <<>>, Err(AlreadyInitialized), <<>>, 0)
    ELSE IF is_zero_bytes(owner) THEN Outcome(st, <<>>, Err(InvalidOwner), <<>>, 0)
    ELSE IF is_zero_bytes(email_hash) THEN Outcome(st, <<>>, Err(InvalidEmailHash), <<>>, 0)
    ELSE LET s1 == storage_set(st, "Owner", owner)
             s2 == storage_set(s1, "EmailHash", email_hash)
             s3 == storage_set(s2, "Nonce", 1)
         IN  Outcome(s3, <<WalletCreatedEvent(owner, email_hash)>>, Ok(Unit), <<>>, 0)

\* Variant: the nonce slot is not written by init.
init_call_nonce_unset(st, owner, email_hash) ==
    IF storage_has(st, "Owner") THEN Outcome(st, <<>>, Err(AlreadyInitialized), <<>>, 0)
    ELSE IF is_zero_bytes(owner) THEN Outcome(st, <<>>, Err(InvalidOwner), <<>>, 0)
    ELSE IF is_zero_bytes(email_hash) THEN Outcome(st, <<>>, Err(InvalidEmailHash), <<>>, 0)
    ELSE LET s1 == storage_set(st, "Owner", owner)
             s2 == storage_set(s1, "EmailHash", email_hash)
         IN  Outcome(s2, <<WalletCreatedEvent(owner, email_hash)>>, Ok(Unit), <<>>, 0)

init_call(st, owner, email_hash) ==
    IF storage_has(st, "Owner") THEN Outcome(st, <<>>, Err(AlreadyInitialized), <<>>, 0)
    ELSE IF is_zero_bytes(owner) THEN Outcome(st, <<>>, Err(InvalidOwner), <<>>, 0)
    ELSE IF is_zero_bytes(email_hash) THEN Outcome(st, <<>>, Err(InvalidEmailHash), <<>>, 0)
    ELSE LET s1 == storage_set(st, "Owner", owner)
             s2 == storage_set(s1, "EmailHash", email_hash)
             s3 == storage_set(s2, "Nonce", 0)
         IN  Outcome(s3, <<WalletCreatedEvent(owner, email_hash)>>, Ok(Unit), <<>>, 0)

\* get(&key).ok_or(Error::NotInitialized)
getter_result(st, key) ==
    IF IsSome(storage_get(st, key)) THEN Ok(Unwrap(storage_get(st, key)))
    ELSE Err(NotInitialized)

get_owner_call(st) == Outcome(st, <<>>, getter_result(st, "Owner"), <<>>, 0)
get_email_hash_call(st) == Outcome(st, <<>>, getter_result(st, "EmailHash"), <<>>, 0)
get_nonce_call(st) == Outcome(st, <<>>, getter_result(st, "Nonce"), <<>>, 0)

\* Variant: the incremented nonce is returned to the caller but never stored.
get_and_increment_nonce_call_not_stored(st) ==
    IF ~IsSome(storage_get(st, "Nonce")) THEN Outcome(st, <<>>, Err(NotInitialized), <<>>, 1)
    ELSE LET current == Unwrap(storage_get(st, "Nonce"))
             new_nonce == checked_add_1(current)
         IN  IF ~IsSome(new_nonce) THEN Outcome(st, <<>>, Err(InvalidNonce), <<>>, 1)
             ELSE Outcome(st, <<>>, Ok(current), <<>>, 1)

\* Variant: a missing nonce slot is read as 0 (unwrap_or(0)).
get_and_increment_nonce_call_default(st) ==
    LET current == IF IsSome(storage_get(st, "Nonce"))
                   THEN Unwrap(storage_get(st, "Nonce")) ELSE 0
        new_nonce == checked_add_1(current)
    IN  IF ~IsSome(new_nonce) THEN Outcome(st, <<>>, Err(InvalidNonce), <<>>, 1)
        ELSE Outcome(storage_set(st, "Nonce", Unwrap(new_nonce)), <<>>,
                     Ok(current), <<>>, 1)

\* Variant: the incremented value is returned.
get_and_increment_nonce_call_returns_new(st) ==
    LET current == storage_get(st, "Nonce") IN
    IF ~IsSome(current) THEN Outcome(st, <<>>, Err(NotInitialized), <<>>, 1)
    ELSE LET new_nonce == checked_add_1(Unwrap(current)) IN
         IF ~IsSome(new_nonce) THEN Outcome(st, <<>>, Err(InvalidNonce), <<>>, 1)
         ELSE Outcome(storage_set(st, "Nonce", Unwrap(new_nonce)), <<>>,
                      Ok(Unwrap(new_nonce)), <<>>, 1)

get_and_increment_nonce_call(st) ==
    LET current == storage_get(st, "Nonce") IN
    IF ~IsSome(current) THEN Outcome(st, <<>>, Err(NotInitialized), <<>>, 1)
    ELSE LET new_nonce == checked_add_1(Unwrap(current)) IN
         IF ~IsSome(new_nonce) THEN Outcome(st, <<>>, Err(InvalidNonce), <<>>, 1)
         ELSE Outcome(storage_set(st, "Nonce", Unwrap(new_nonce)), <<>>,
                      Ok(Unwrap(current)), <<>>, 1)

\* Variant: the domain tag is left out.
update_owner_message_untagged(new_owner, nonce) == new_owner \o to_be_bytes(nonce)

\* "update_owner" || new_owner || nonce
update_owner_message(new_owner, nonce) ==
    UPDATE_OWNER_TAG \o new_owner \o to_be_bytes(nonce)

\* signature_payload || nonce
check_auth_message(signature_payload, nonce) ==
    signature_payload \o to_be_bytes(nonce)

\* Variant: the signature is verified against the key being installed.
update_owner_verifier_new(current_owner, new_owner) == new_owner

\* The public key update_owner hands to verify_ed25519_signature.
update_owner_verifier(current_owner, new_owner) == current_owner

\* Variant: the new owner is stored before the nonce is advanced.
update_owner_commit_owner_first(st, current_owner, new_owner, nonce, q) ==
    LET s1 == storage_set(st, "Owner", new_owner)
        inc == get_and_increment_nonce_call(s1)
    IN  IF inc.res.kind # "ok" THEN Outcome(inc.st, <<>>, inc.res, <<q>>, 1)
        ELSE Outcome(inc.st, <<KeyRotatedEvent(current_owner, new_owner, nonce)>>,
                     Ok(Unit), <<q>>, 1)

\* Variant: the event carries the nonce after the increment.
update_owner_commit_event_after(st, current_owner, new_owner, nonce, q) ==
    LET inc == get_and_increment_nonce_call(st) IN
    IF inc.res.kind # "ok" THEN Outcome(inc.st, <<>>, inc.res, <<q>>, 1)
    ELSE Outcome(storage_set(inc.st, "Owner", new_owner),
                 <<KeyRotatedEvent(current_owner, new_owner, nonce + 1)>>,
                 Ok(Unit), <<q>>, 1)

\* Variant: the new owner is written to the EmailHash slot.
update_owner_commit_wrong_slot(st, current_owner, new_owner, nonce, q) ==
    LET inc == get_and_increment_nonce_call(st) IN
    IF inc.res.kind # "ok" THEN Outcome(inc.st, <<>>, inc.res, <<q>>, 1)
    ELSE Outcome(storage_set(inc.st, "EmailHash", new_owner),
                 <<KeyRotatedEvent(current_owner, new_owner, nonce)>>,
                 Ok(Unit), <<q>>, 1)

\* The tail of update_owner after a passed verification.
update_owner_commit(st, current_owner, new_owner, nonce, q) ==
    LET inc == get_and_increment_nonce_call(st) IN
    IF inc.res.kind # "ok" THEN Outcome(inc.st, <<>>, inc.res, <<q>>, 1)
    ELSE Outcome(storage_set(inc.st, "Owner", new_owner),
                 <<KeyRotatedEvent(current_owner, new_owner, nonce)>>,
                 Ok(Unit), <<q>>, 1)

\* Variant: the same-owner check is missing.
update_owner_call_same_unchecked(st, new_owner, signature) ==
    LET cur == storage_get(st, "Owner") IN
    IF ~IsSome(cur) THEN Outcome(st, <<>>, Err(NotInitialized), <<>>, 0)
    ELSE IF is_zero_bytes(new_owner) THEN Outcome(st, <<>>, Err(InvalidOwner), <<>>, 0)
    ELSE LET n == getter_result(st, "Nonce") IN
         IF n.kind # "ok" THEN Outcome(st, <<>>, n, <<>>, 0)
         ELSE LET nonce == Unwrap(n.val)
                  q == verify_ed25519_signature(
                           update_owner_verifier(Unwrap(cur), new_owner),
                           update_owner_message(new_owner, nonce), signature)
              IN  IF ~q.ok THEN Outcome(st, <<>>, Trap, <<q>>, 0)
                  ELSE update_owner_commit(st, Unwrap(cur), new_owner, nonce, q)

\* Variant: new_owner is validated before the owner slot is loaded.
update_owner_call_zero_first(st, new_owner, signature) ==
    LET cur == storage_get(st, "Owner") IN
    IF is_zero_bytes(new_owner) THEN Outcome(st, <<>>, Err(InvalidOwner), <<>>, 0)
    ELSE IF ~IsSome(cur) THEN Outcome(st, <<>>, Err(NotInitialized), <<>>, 0)
    ELSE IF Unwrap(cur) = new_owner THEN Outcome(st, <<>>, Err(SameOwner), <<>>, 0)
    ELSE LET n == getter_result(st, "Nonce") IN
         IF n.kind # "ok" THEN Outcome(st, <<>>, n, <<>>, 0)
         ELSE LET nonce == Unwrap(n.val)
                  q == verify_ed25519_signature(
                           update_owner_verifier(Unwrap(cur), new_owner),
                           update_owner_message(new_owner, nonce), signature)
              IN  IF ~q.ok THEN Outcome(st, <<>>, Trap, <<q>>, 0)
                  ELSE update_owner_commit(st, Unwrap(cur), new_owner, nonce, q)

update_owner_call(st, new_owner, signature) ==
    LET cur == storage_get(st, "Owner") IN
    IF ~IsSome(cur) THEN Outcome(st, <<>>, Err(NotInitialized), <<>>, 0)
    ELSE IF is_zero_bytes(new_owner) THEN Outcome(st, <<>>, Err(InvalidOwner), <<>>, 0)
    ELSE IF Unwrap(cur) = new_owner THEN Outcome(st, <<>>, Err(SameOwner), <<>>, 0)
    ELSE LET n == getter_result(st, "Nonce") IN
         IF n.kind # "ok" THEN Outcome(st, <<>>, n, <<>>, 0)
         ELSE LET nonce == Unwrap(n.val)
                  q == verify_ed25519_signature(
                           update_owner_verifier(Unwrap(cur), new_owner),
                           update_owner_message(new_owner, nonce), signature)
              IN  IF ~q.ok THEN Outcome(st, <<>>, Trap, <<q>>, 0)
                  ELSE update_owner_commit(st, Unwrap(cur), new_owner, nonce, q)

\* Variant: the nonce is not advanced after a passed verification.
check_auth_commit_no_advance(st, owner, expected_nonce, q) ==
    Outcome(st, <<AuthSuccessEvent(owner, expected_nonce)>>, Ok(Unit), <<q>>, 0)

\* Variant: the nonce is advanced twice after a passed verification.
check_auth_commit_twice(st, owner, expected_nonce, q) ==
    LET inc1 == get_and_increment_nonce_call(st) IN
    IF inc1.res.kind # "ok" THEN Outcome(inc1.st, <<>>, inc1.res, <<q>>, 1)
    ELSE LET inc2 == get_and_increment_nonce_call(inc1.st) IN
         IF inc2.res.kind # "ok" THEN Outcome(inc2.st, <<>>, inc2.res, <<q>>, 2)
         ELSE Outcome(inc2.st, <<AuthSuccessEvent(owner, expected_nonce)>>,
                      Ok(Unit), <<q>>, 2)

\* Variant: the event carries the nonce read back after the increment.
check_auth_commit_event_new_nonce(st, owner, expected_nonce, q) ==
    LET inc == get_and_increment_nonce_call(st) IN
    IF inc.res.kind # "ok" THEN Outcome(inc.st, <<>>, inc.res, <<q>>, 1)
    ELSE Outcome(inc.st,
                 <<AuthSuccessEvent(owner, Unwrap(storage_get(inc.st, "Nonce")))>>,
                 Ok(Unit), <<q>>, 1)

\* The tail of __check_auth after a passed verification.
check_auth_commit(st, owner, expected_nonce, q) ==
    LET inc == get_and_increment_nonce_call(st) IN
    IF inc.res.kind # "ok" THEN Outcome(inc.st, <<>>, inc.res, <<q>>, 1)
    ELSE Outcome(inc.st, <<AuthSuccessEvent(owner, expected_nonce)>>,
                 Ok(Unit), <<q>>, 1)

check_auth_call(st, signature_payload, signature) ==
    LET owner == storage_get(st, "Owner") IN
    IF ~IsSome(owner) THEN Outcome(st, <<>>, Err(NotInitialized), <<>>, 0)
    ELSE LET n == getter_result(st, "Nonce") IN
         IF n.kind # "ok" THEN Outcome(st, <<>>, n, <<>>, 0)
         ELSE LET expected_nonce == Unwrap(n.val)
                  q == verify_ed25519_signature(
                           Unwrap(owner),
                           check_auth_message(signature_payload, expected_nonce),
                           signature)
              IN  IF ~q.ok THEN Outcome(st, <<>>, Trap, <<q>>, 0)
                  ELSE check_auth_commit(st, Unwrap(owner), expected_nonce, q)

(***************************************************************************)
(* Inputs                                                                  *)
(***************************************************************************)
Nonces == 0..U64_MAX
Messages ==
    {check_auth_message(p, n) : p \in Payloads, n \in Nonces}
    \cup {update_owner_message(k, n) : k \in BytesN32, n \in Nonces}
Signatures == {Garbage} \cup {Sign(k, m) : k \in NonZeroKeys, m \in Messages}

NoArgs == [owner |-> <<>>, email_hash |-> <<>>, new_owner |-> <<>>,
           signature_payload |-> <<>>, signature |-> Garbage]

(***************************************************************************)
(* Actions: one per public contract function, on instance c                *)
(***************************************************************************)
\* Variant: one storage shared by all instances.
shared_write(store, c, st) == [d \in DOMAIN store |-> st]

\* env.storage().instance(): a write reaches the storage of instance c only.
instance_write(store, c, st) == [store EXCEPT ![c] = st]

\* Successful calls counted per instance: the public get_and_increment_nonce
\* calls, and the __check_auth / update_owner calls.
NoCalls == [consume |-> 0, protected |-> 0]
Count(tally, op, res) ==
    IF res.kind # "ok" THEN tally
    ELSE IF op = "get_and_increment_nonce" THEN [tally EXCEPT !.consume = @ + 1]
    ELSE IF op \in {"check_auth", "update_owner"} THEN [tally EXCEPT !.protected = @ + 1]
    ELSE tally

Publish(c, ev) == [i \in 1..Len(ev) |-> [contract |-> c, event |-> ev[i]]]

Invoke(c, op, args, out) ==
    /\ last.op = "none"
    /\ storage' = instance_write(storage, c, out.st)
    /\ events' = events \o Publish(c, out.ev)
    /\ accepted' = IF op = "check_auth" /\ out.res.kind = "ok"
                   THEN [accepted EXCEPT
                           ![c] = @ \cup {<<args.signature_payload, args.signature>>}]
                   ELSE accepted
    /\ inits' = IF op = "init" /\ out.res.kind = "ok"
                THEN [inits EXCEPT ![c] = @ + 1] ELSE inits
    /\ calls' = [calls EXCEPT ![c] = Count(@, op, out.res)]
    /\ last' = [contract |-> c, op |-> op, args |-> args, res |-> out.res,
                oracle |-> out.oracle, consumes |-> out.consumes,
                pre |-> [st |-> storage[c], ev |-> events, accepted |-> accepted[c],
                         inits |-> inits[c], calls |-> calls[c], all |-> storage,
                         allinits |-> inits]]

init(c, owner, email_hash) ==
    Invoke(c, "init", [NoArgs EXCEPT !.owner = owner, !.email_hash = email_hash],
           init_call(storage[c], owner, email_hash))

get_owner(c) == Invoke(c, "get_owner", NoArgs, get_owner_call(storage[c]))

get_email_hash(c) == Invoke(c, "get_email_hash", NoArgs, get_email_hash_call(storage[c]))

get_nonce(c) == Invoke(c, "get_nonce", NoArgs, get_nonce_call(storage[c]))

get_and_increment_nonce(c) ==
    Invoke(c, "get_and_increment_nonce", NoArgs, get_and_increment_nonce_call(storage[c]))

update_owner(c, new_owner, signature) ==
    Invoke(c, "update_owner",
           [NoArgs EXCEPT !.new_owner = new_owner, !.signature = signature],
           update_owner_call(storage[c], new_owner, signature))

check_auth(c, signature_payload, signature) ==
    Invoke(c, "check_auth",
           [NoArgs EXCEPT !.signature_payload = signature_payload,
                          !.signature = signature],
           check_auth_call(storage[c], signature_payload, signature))

NoCall == [contract |-> 0, op |-> "none", args |-> NoArgs, res |-> Ok(Unit),
           oracle |-> <<>>, consumes |-> 0,
           pre |-> [st |-> EmptyStorage, ev |-> <<>>, accepted |-> {}, inits |-> 0,
                    calls |-> NoCalls, all |-> <<>>, allinits |-> <<>>]]

\* The result of the invocation is handed to the caller; the next invocation
\* starts only after that.
Return ==
    /\ last.op # "none"
    /\ last' = NoCall
    /\ UNCHANGED <<storage, events, accepted, inits, calls>>

\* One freshly registered contract instance, nothing stored, nothing published.
Init ==
    /\ storage = [c \in {1} |-> EmptyStorage]
    /\ events = <<>>
    /\ accepted = [c \in {1} |-> {}]
    /\ inits = [c \in {1} |-> 0]
    /\ calls = [c \in {1} |-> NoCalls]
    /\ last = NoCall

Next ==
    \/ Return
    \/ \E c \in DOMAIN storage, owner \in BytesN32, email_hash \in EmailHashes :
           init(c, owner, email_hash)
    \/ \E c \in DOMAIN storage : get_owner(c)
    \/ \E c \in DOMAIN storage : get_email_hash(c)
    \/ \E c \in DOMAIN storage : get_nonce(c)
    \/ \E c \in DOMAIN storage : get_and_increment_nonce(c)
    \/ \E c \in DOMAIN storage, new_owner \in BytesN32, signature \in Signatures :
           update_owner(c, new_owner, signature)
    \/ \E c \in DOMAIN storage, signature_payload \in Payloads,
          signature \in Signatures :
           check_auth(c, signature_payload, signature)

Spec == Init /\ [][Next]_vars

(***************************************************************************)
(* Two contract instances registered in one environment.  The calls are    *)
(* tried with the signatures made for nonce 0 and with one payload.        *)
(***************************************************************************)
PayloadsTwo == {KeyA}
MessagesTwo ==
    {check_auth_message(p, 0) : p \in PayloadsTwo}
    \cup {update_owner_message(k, 0) : k \in NonZeroKeys}
SignaturesTwo == {Garbage} \cup {Sign(k, m) : k \in NonZeroKeys, m \in MessagesTwo}

InitTwo ==
    /\ storage = [c \in {1, 2} |-> EmptyStorage]
    /\ events = <<>>
    /\ accepted = [c \in {1, 2} |-> {}]
    /\ inits = [c \in {1, 2} |-> 0]
    /\ calls = [c \in {1, 2} |-> NoCalls]
    /\ last = NoCall

NextTwo ==
    \/ Return
    \/ \E c \in DOMAIN storage, owner \in BytesN32, email_hash \in EmailHashes :
           init(c, owner, email_hash)
    \/ \E c \in DOMAIN storage : get_owner(c)
    \/ \E c \in DOMAIN storage : get_email_hash(c)
    \/ \E c \in DOMAIN storage : get_nonce(c)
    \/ \E c \in DOMAIN storage : get_and_increment_nonce(c)
    \/ \E c \in DOMAIN storage, new_owner \in BytesN32, signature \in SignaturesTwo :
           update_owner(c, new_owner, signature)
    \/ \E c \in DOMAIN storage, signature_payload \in PayloadsTwo,
          signature \in SignaturesTwo :
           check_auth(c, signature_payload, signature)

SpecTwo == InitTwo /\ [][NextTwo]_vars

(***************************************************************************)
(* Observations of the call that has just returned                         *)
(***************************************************************************)
Called == last.op # "none"
Succeeded == last.res.kind = "ok"
Failed == last.res.kind # "ok"
Protected == last.op \in {"check_auth", "update_owner"}
PreSt == last.pre.st
PostSt == storage[last.contract]
PreOwner == Unwrap(PreSt["Owner"])
PreNonce == Unwrap(PreSt["Nonce"])
StateUntouched == PostSt = PreSt /\ events = last.pre.ev

\* The canonical messages, as the signer builds them.
AuthMessage(challenge, nonce) == challenge \o to_be_bytes(nonce)
RotationMessage(new_owner, nonce) ==
    <<117, 112, 100, 97, 116, 101, 95, 111, 119, 110, 101, 114>>
        \o new_owner \o to_be_bytes(nonce)

\* The canonical message of the call that has just returned.
CanonicalMessage ==
    IF last.op = "check_auth" THEN AuthMessage(last.args.signature_payload, PreNonce)
    ELSE RotationMessage(last.args.new_owner, PreNonce)

\* The events of instance c in a log.
RotationsOf(c, log) ==
    {i \in 1..Len(log) : log[i].contract = c /\ log[i].event.topic = "key_rotated"}

(***************************************************************************)
(* C1  Replay rejection: a (challenge, signature) pair that __check_auth   *)
(* has accepted once is rejected by every later __check_auth call on the   *)
(* instance, whatever consume or rotation calls came in between; the       *)
(* rejected call leaves the nonce as it was and publishes no event.        *)
(***************************************************************************)
Replayed ==
    /\ last.op = "check_auth"
    /\ <<last.args.signature_payload, last.args.signature>> \in last.pre.accepted

C1_ReplayRejected ==
    Replayed => /\ Failed
                /\ PostSt["Nonce"] = PreSt["Nonce"]
                /\ events = last.pre.ev

\* A replay presented after the owner was rotated away and back to the key
\* that signed the replayed pair.
C1_Witness ==
    /\ Replayed
    /\ Cardinality(RotationsOf(last.contract, last.pre.ev)) >= 2
    /\ last.args.signature.signer = PreOwner
    /\ Failed

(***************************************************************************)
(* C2  Atomic failure: a call that fails, for whatever reason, leaves the  *)
(* three storage slots of the instance (present or absent) and the event   *)
(* log exactly as they were before the call.                               *)
(***************************************************************************)
C2_AtomicFailure == (Called /\ Failed) => StateUntouched

\* update_owner fails on the nonce overflow after its signature was accepted.
C2_Witness ==
    /\ last.op = "update_owner"
    /\ last.res = Err(InvalidNonce)
    /\ Len(last.oracle) = 1 /\ last.oracle[1].ok
    /\ StateUntouched

(***************************************************************************)
(* C3  Authorization soundness: __check_auth and update_owner succeed only *)
(* after one consultation of the oracle, which accepted the supplied       *)
(* signature under the owner key stored before the call over the canonical *)
(* message built with the nonce stored before the call.                    *)
(***************************************************************************)
C3_AuthorizationSound ==
    (Protected /\ Succeeded) =>
        /\ Len(last.oracle) = 1
        /\ last.oracle[1].ok
        /\ last.oracle[1].key = PreOwner
        /\ last.oracle[1].msg = CanonicalMessage
        /\ last.oracle[1].sig = last.args.signature
        /\ ed25519_verify(PreOwner, CanonicalMessage, last.args.signature)

\* A rotation that succeeded at a nonce other than 0.
C3_Witness ==
    /\ last.op = "update_owner"
    /\ Succeeded
    /\ PreNonce > 0
    /\ last.args.signature = Sign(PreOwner, CanonicalMessage)


(***************************************************************************)
(* C4  Whenever the oracle rejects the signature inside __check_auth or    *)
(* update_owner, the caller receives the typed error InvalidSignature.     *)
(* (Stated as the claim has it; the contract traps instead.)               *)
(***************************************************************************)
OracleRejected ==
    /\ Protected
    /\ Len(last.oracle) >= 1
    /\ ~last.oracle[1].ok

C4_RejectionIsInvalidSignature ==
    OracleRejected => last.res = Err(InvalidSignature)

(***************************************************************************)
(* C5  Domain separation: update_owner rejects every signature made over a *)
(* general-authorization message, __check_auth rejects every signature     *)
(* made over a rotation message, and the message either of them hands to   *)
(* the oracle is never a message of the other kind.                        *)
(***************************************************************************)
IsAuthMessage(m) ==
    \E p \in BytesN32 \cup Payloads, n \in Nonces : m = AuthMessage(p, n)
IsRotationMessage(m) ==
    \E k \in BytesN32, n \in Nonces : m = RotationMessage(k, n)

C5_DomainSeparation ==
    /\ (last.op = "update_owner" /\ IsAuthMessage(last.args.signature.msg)) => Failed
    /\ (last.op = "check_auth" /\ IsRotationMessage(last.args.signature.msg)) => Failed
    /\ (last.op = "update_owner" /\ Len(last.oracle) >= 1)
           => Len(last.oracle[1].msg) # N32 + U64_BYTES
    /\ (last.op = "check_auth" /\ Len(last.oracle) >= 1)
           => ~IsRotationMessage(last.oracle[1].msg)
    /\ (Called /\ IsSome(PreSt["Nonce"])) =>
           \A p \in Payloads, k \in BytesN32 :
               check_auth_message(p, PreNonce) # update_owner_message(k, PreNonce)

\* update_owner is handed the current owner's signature over the
\* general-authorization message of the current nonce whose challenge is the
\* very key to install, and rejects it.
C5_Witness ==
    /\ last.op = "update_owner"
    /\ Len(last.oracle) = 1
    /\ last.args.signature.signer = PreOwner
    /\ last.args.signature.msg = AuthMessage(last.args.new_owner, PreNonce)
    /\ Failed

(***************************************************************************)
(* C6  Only the current owner key authorizes: once a key has been rotated  *)
(* away, a __check_auth or update_owner call carrying a signature of that  *)
(* key fails as long as another key is the stored owner; update_owner      *)
(* verifies against the owner stored before the call, never against the    *)
(* new_owner argument.                                                     *)
(***************************************************************************)
FormerOwners ==
    {last.pre.ev[i].event.old_owner : i \in RotationsOf(last.contract, last.pre.ev)}

SignedByFormerOwner ==
    /\ Protected
    /\ IsSome(PreSt["Owner"])
    /\ last.args.signature.signer \in FormerOwners
    /\ last.args.signature.signer # PreOwner

C6_OnlyCurrentOwner ==
    /\ SignedByFormerOwner => Failed
    /\ (last.op = "update_owner" /\ Len(last.oracle) >= 1)
           => /\ last.oracle[1].key = PreOwner
              /\ last.oracle[1].key # last.args.new_owner

\* After a rotation away from a key, that key signs its own re-installation
\* over the canonical rotation message of the current nonce; the call fails.
C6_Witness ==
    /\ last.op = "update_owner"
    /\ SignedByFormerOwner
    /\ last.args.new_owner = last.args.signature.signer
    /\ last.args.signature.msg = CanonicalMessage
    /\ Failed

(***************************************************************************)
(* C7  Successful rotation effect: the owner slot holds new_owner, the     *)
(* nonce is one more, the email hash is untouched, and exactly one event,  *)
(* KeyRotated{old owner, new_owner, nonce before the call}, is appended.   *)
(***************************************************************************)
C7_RotationEffect ==
    (last.op = "update_owner" /\ Succeeded) =>
        /\ PostSt["Owner"] = Some(last.args.new_owner)
        /\ PostSt["Nonce"] = Some(PreNonce + 1)
        /\ PostSt["EmailHash"] = PreSt["EmailHash"]
        /\ events = Append(last.pre.ev,
                           [contract |-> last.contract,
                            event |-> [topic |-> "key_rotated",
                                       old_owner |-> PreOwner,
                                       new_owner |-> last.args.new_owner,
                                       nonce |-> PreNonce]])

\* A second rotation, at a nonce other than 0.
C7_Witness ==
    /\ last.op = "update_owner"
    /\ Succeeded
    /\ PreNonce > 0
    /\ RotationsOf(last.contract, last.pre.ev) # {}

(***************************************************************************)
(* C8  Nonce monotonicity: no call decreases the stored nonce; a           *)
(* successful __check_auth or update_owner raises it by exactly 1, through *)
(* one entry into get_and_increment_nonce; a failed call, a getter and an  *)
(* init on an initialized instance leave it as it was.                     *)
(***************************************************************************)
C8_NonceMonotonic ==
    Called =>
        /\ IsSome(PreSt["Nonce"]) =>
               /\ IsSome(PostSt["Nonce"])
               /\ Unwrap(PostSt["Nonce"]) >= PreNonce
        /\ (Protected /\ Succeeded) =>
               /\ PostSt["Nonce"] = Some(PreNonce + 1)
               /\ last.consumes = 1
        /\ Failed => PostSt["Nonce"] = PreSt["Nonce"]
        /\ last.op \in {"get_owner", "get_email_hash", "get_nonce"}
               => PostSt["Nonce"] = PreSt["Nonce"]
        /\ (last.op = "init" /\ IsSome(PreSt["Nonce"]))
               => PostSt["Nonce"] = PreSt["Nonce"]

\* A successful __check_auth at a nonce other than 0.
C8_Witness ==
    /\ last.op = "check_auth"
    /\ Succeeded
    /\ PreNonce > 0
    /\ PostSt["Nonce"] = Some(PreNonce + 1)

(***************************************************************************)
(* C9  Overflow is a hard error: with the nonce at u64::MAX,               *)
(* get_and_increment_nonce fails with InvalidNonce, and so do __check_auth *)
(* and update_owner when handed a signature the oracle accepts; the nonce  *)
(* keeps its value and the owner is not replaced.                          *)
(***************************************************************************)
AtMaxNonce == Called /\ PreSt["Nonce"] = Some(U64_MAX)

AcceptableSignature ==
    /\ Protected
    /\ ed25519_verify(PreOwner, CanonicalMessage, last.args.signature)
    /\ last.op = "update_owner" =>
           (~is_zero_bytes(last.args.new_owner) /\ last.args.new_owner # PreOwner)

C9_OverflowIsError ==
    AtMaxNonce =>
        /\ last.op = "get_and_increment_nonce" => last.res = Err(InvalidNonce)
        /\ AcceptableSignature => last.res = Err(InvalidNonce)
        /\ PostSt["Nonce"] = Some(U64_MAX)
        /\ PostSt["Owner"] = PreSt["Owner"]

\* update_owner with a valid signature of the owner at the maximal nonce.
C9_Witness ==
    /\ AtMaxNonce
    /\ last.op = "update_owner"
    /\ AcceptableSignature
    /\ last.res = Err(InvalidNonce)

(***************************************************************************)
(* C10  Init guard: once init has succeeded on an instance, every further  *)
(* init fails with AlreadyInitialized and changes nothing; init succeeds   *)
(* at most once and the instance never becomes uninitialized again.        *)
(***************************************************************************)
C10_InitGuard ==
    /\ (last.op = "init" /\ last.pre.inits >= 1)
           => (last.res = Err(AlreadyInitialized) /\ StateUntouched)
    /\ \A c \in DOMAIN storage :
           /\ inits[c] <= 1
           /\ inits[c] >= 1 => \A k \in DataKey : storage_has(storage[c], k)

\* init with valid arguments that differ from the stored owner, after a
\* rotation, is refused.
C10_Witness ==
    /\ last.op = "init"
    /\ last.pre.inits = 1
    /\ ~is_zero_bytes(last.args.owner)
    /\ ~is_zero_bytes(last.args.email_hash)
    /\ last.args.owner # PreOwner
    /\ RotationsOf(last.contract, last.pre.ev) # {}
    /\ last.res = Err(AlreadyInitialized)


(***************************************************************************)
(* C11  Zero-sentinel rejection at initialization: on an uninitialized     *)
(* instance init with an all-zero owner fails with InvalidOwner, init with *)
(* a non-zero owner and an all-zero email hash fails with                  *)
(* InvalidEmailHash; nothing is stored and nothing published, so the       *)
(* instance is still uninitialized: get_owner on it fails with             *)
(* NotInitialized and an init with valid arguments succeeds.               *)
(***************************************************************************)
Uninitialized(st) == \A k \in DataKey : st[k] = None

InitOnFresh == last.op = "init" /\ Uninitialized(PreSt)

C11_ZeroSentinelRejected ==
    /\ (InitOnFresh /\ last.args.owner = Zero32)
           => (last.res = Err(InvalidOwner) /\ StateUntouched /\ Uninitialized(PostSt))
    /\ (InitOnFresh /\ last.args.owner # Zero32 /\ last.args.email_hash = Zero32)
           => (last.res = Err(InvalidEmailHash) /\ StateUntouched
               /\ Uninitialized(PostSt))
    /\ (last.op = "get_owner" /\ Uninitialized(PreSt))
           => last.res = Err(NotInitialized)
    /\ (InitOnFresh /\ last.args.owner # Zero32 /\ last.args.email_hash # Zero32)
           => Succeeded

\* init with a key whose only non-zero byte is the last and an all-zero email
\* hash is refused on a fresh instance.
C11_Witness ==
    /\ InitOnFresh
    /\ last.args.owner = KeyB
    /\ last.args.email_hash = Zero32
    /\ last.res = Err(InvalidEmailHash)
    /\ Uninitialized(PostSt)

(***************************************************************************)
(* C12  Successful initialization effect: init with two non-zero arguments *)
(* on an uninitialized instance succeeds, stores the owner, the email hash *)
(* and the nonce 0 and publishes exactly one WalletCreated{owner,          *)
(* email_hash}; the getters return the stored values.                      *)
(***************************************************************************)
CreationsOf(c, log) ==
    {i \in 1..Len(log) : log[i].contract = c /\ log[i].event.topic = "wallet_created"}

C12_InitEffect ==
    /\ (InitOnFresh /\ last.args.owner # Zero32 /\ last.args.email_hash # Zero32) =>
           /\ Succeeded
           /\ PostSt = [Owner |-> Some(last.args.owner),
                        EmailHash |-> Some(last.args.email_hash),
                        Nonce |-> Some(0)]
           /\ events = Append(last.pre.ev,
                              [contract |-> last.contract,
                               event |-> [topic |-> "wallet_created",
                                          owner |-> last.args.owner,
                                          email_hash |-> last.args.email_hash]])
           /\ Cardinality(CreationsOf(last.contract, events)) = 1
    /\ (last.op = "get_owner" /\ ~Uninitialized(PreSt))
           => (Succeeded /\ last.res.val = PreSt["Owner"])
    /\ (last.op = "get_email_hash" /\ ~Uninitialized(PreSt))
           => (Succeeded /\ last.res.val = PreSt["EmailHash"])
    /\ (last.op = "get_nonce" /\ ~Uninitialized(PreSt))
           => (Succeeded /\ last.res.val = PreSt["Nonce"])

\* get_nonce returns 0 on an instance on which nothing but init has succeeded.
C12_Witness ==
    /\ last.op = "get_nonce"
    /\ last.pre.inits = 1
    /\ last.pre.calls = NoCalls
    /\ last.res.kind = "ok"
    /\ last.res.val = Some(0)
    /\ Len(events) = 1

(***************************************************************************)
(* C13  Initialization cannot be bypassed: while init has never succeeded  *)
(* on the instance, every other function fails with NotInitialized,        *)
(* creates no storage entry and publishes no event.                        *)
(***************************************************************************)
BeforeInit == Called /\ last.op # "init" /\ last.pre.inits = 0

C13_NoBypass ==
    BeforeInit => /\ last.res = Err(NotInitialized)
                  /\ Uninitialized(PostSt)
                  /\ events = last.pre.ev

\* __check_auth with a well-formed signature on an instance never initialized.
C13_Witness ==
    /\ BeforeInit
    /\ last.op = "check_auth"
    /\ last.args.signature = Sign(KeyA, AuthMessage(last.args.signature_payload, 0))
    /\ last.res = Err(NotInitialized)


(***************************************************************************)
(* C14  get_and_increment_nonce sequence: on an initialized instance on    *)
(* which no __check_auth or update_owner has succeeded, the i-th           *)
(* successful get_and_increment_nonce (counting from 0) returns i, and     *)
(* get_nonce after k of them returns k.                                    *)
(***************************************************************************)
OnlyConsumed == last.pre.inits = 1 /\ last.pre.calls.protected = 0

C14_ConsumeSequence ==
    /\ (last.op = "get_and_increment_nonce" /\ Succeeded /\ OnlyConsumed) =>
           /\ last.res.val = Some(last.pre.calls.consume)
           /\ PostSt["Nonce"] = Some(last.pre.calls.consume + 1)
    /\ (last.op = "get_nonce" /\ OnlyConsumed) =>
           /\ Succeeded
           /\ last.res.val = Some(last.pre.calls.consume)

\* The third call in a row returns 2.
C14_Witness ==
    /\ last.op = "get_and_increment_nonce"
    /\ OnlyConsumed
    /\ last.pre.calls.consume = 2
    /\ last.res.kind = "ok"
    /\ last.res.val = Some(2)

(***************************************************************************)
(* C15  Rotation same-key rejection: update_owner with new_owner equal to  *)
(* the stored owner fails with SameOwner for every signature, without      *)
(* consulting the oracle and without advancing the nonce.                  *)
(***************************************************************************)
RotationToSelf ==
    /\ last.op = "update_owner"
    /\ IsSome(PreSt["Owner"])
    /\ last.args.new_owner = PreOwner

C15_SameOwnerRejected ==
    RotationToSelf => /\ last.res = Err(SameOwner)
                      /\ last.oracle = <<>>
                      /\ last.consumes = 0
                      /\ StateUntouched

\* The owner's valid signature over its own re-installation, at the maximal
\* nonce: SameOwner, not InvalidNonce.
C15_Witness ==
    /\ RotationToSelf
    /\ PreSt["Nonce"] = Some(U64_MAX)
    /\ last.args.signature = Sign(PreOwner, RotationMessage(PreOwner, U64_MAX))
    /\ last.res = Err(SameOwner)

(***************************************************************************)
(* C16  Single initialization predicate: between calls the Owner,          *)
(* EmailHash and Nonce slots of an instance are all present or all absent. *)
(***************************************************************************)
C16_SlotsTogether ==
    \A c \in DOMAIN storage :
        /\ storage_has(storage[c], "Owner") <=> storage_has(storage[c], "EmailHash")
        /\ storage_has(storage[c], "Owner") <=> storage_has(storage[c], "Nonce")

\* The state a successful init leaves.
C16_Witness ==
    /\ last.op = "init"
    /\ Succeeded
    /\ \A k \in DataKey : storage_has(PostSt, k)
    /\ Uninitialized(PreSt)

(***************************************************************************)
(* C17  Non-zero identity: the stored owner key and the stored email hash  *)
(* are never the all-zero 32-byte value.                                   *)
(***************************************************************************)
NonZero32(bytes) == bytes # Zero32 /\ \E i \in 1..N32 : bytes[i] # 0

C17_IdentityNonZero ==
    \A c \in DOMAIN storage :
        /\ storage_has(storage[c], "Owner") => NonZero32(Unwrap(storage[c]["Owner"]))
        /\ storage_has(storage[c], "EmailHash")
               => NonZero32(Unwrap(storage[c]["EmailHash"]))

\* update_owner was offered the all-zero key with a valid signature of the
\* owner over it and the identity is still non-zero.
C17_Witness ==
    /\ last.op = "update_owner"
    /\ IsSome(PreSt["Owner"])
    /\ last.args.new_owner = Zero32
    /\ last.args.signature = Sign(PreOwner, RotationMessage(Zero32, PreNonce))
    /\ NonZero32(Unwrap(PostSt["Owner"]))

(***************************************************************************)
(* C18  Frame of the identity fields: the email hash keeps the value init  *)
(* stored; the owner changes only in a successful update_owner; the three  *)
(* getters change no slot and publish nothing.                             *)
(***************************************************************************)
C18_IdentityFrame ==
    /\ (Called /\ IsSome(PreSt["EmailHash"]))
           => PostSt["EmailHash"] = PreSt["EmailHash"]
    /\ \A c \in DOMAIN storage :
           storage_has(storage[c], "EmailHash") =>
               \E i \in CreationsOf(c, events) :
                   events[i].event.email_hash = Unwrap(storage[c]["EmailHash"])
    /\ (Called /\ IsSome(PreSt["Owner"]) /\ PostSt["Owner"] # PreSt["Owner"])
           => (last.op = "update_owner" /\ Succeeded)
    /\ last.op \in {"get_owner", "get_email_hash", "get_nonce"} => StateUntouched

\* A successful __check_auth after a rotation: owner and email hash stay.
C18_Witness ==
    /\ last.op = "check_auth"
    /\ Succeeded
    /\ RotationsOf(last.contract, last.pre.ev) # {}
    /\ PostSt["Owner"] = PreSt["Owner"]
    /\ PostSt["EmailHash"] = PreSt["EmailHash"]

(***************************************************************************)
(* C20  Rotation precondition order: update_owner reports NotInitialized   *)
(* first, then InvalidOwner for an all-zero new_owner, then SameOwner, and *)
(* only then verifies the signature; none of the three precondition        *)
(* failures consults the oracle.                                           *)
(***************************************************************************)
C20_PreconditionOrder ==
    last.op = "update_owner" =>
        IF ~IsSome(PreSt["Owner"])
        THEN last.res = Err(NotInitialized) /\ last.oracle = <<>>
        ELSE IF last.args.new_owner = Zero32
        THEN last.res = Err(InvalidOwner) /\ last.oracle = <<>>
        ELSE IF last.args.new_owner = PreOwner
        THEN last.res = Err(SameOwner) /\ last.oracle = <<>>
        ELSE /\ Len(last.oracle) = 1
             /\ last.res.code \notin {NotInitialized, InvalidOwner, SameOwner}

\* update_owner with the all-zero key on an instance never initialized:
\* NotInitialized comes first.
C20_Witness ==
    /\ last.op = "update_owner"
    /\ Uninitialized(PreSt)
    /\ last.args.new_owner = Zero32
    /\ last.res = Err(NotInitialized)


(***************************************************************************)
(* C19  Instance isolation: a call on one instance, successful or not,     *)
(* leaves the slots, the initialized status and the events of every other  *)
(* instance as they were; what the getters of an instance return was       *)
(* written by calls on that instance.                                      *)
(***************************************************************************)
EventsOf(c, log) == SelectSeq(log, LAMBDA e : e.contract = c)

\* The owner the calls on instance c have installed, read off its events.
InstalledOwner(c, log) ==
    LET own == EventsOf(c, log)
        e == own[Len(own)].event
    IN  IF e.topic = "key_rotated" THEN e.new_owner ELSE e.owner

C19_InstanceIsolation ==
    Called =>
        /\ \A d \in DOMAIN storage \ {last.contract} :
               /\ storage[d] = last.pre.all[d]
               /\ inits[d] = last.pre.allinits[d]
               /\ EventsOf(d, events) = EventsOf(d, last.pre.ev)
        /\ (last.op = "get_owner" /\ Succeeded)
               => last.res.val = Some(InstalledOwner(last.contract, events))
        /\ (last.op = "get_email_hash" /\ Succeeded)
               => last.res.val
                      = Some(EventsOf(last.contract, events)[1].event.email_hash)
        /\ (last.op = "get_nonce" /\ Succeeded)
               => last.res.val = Some(calls[last.contract].consume
                                      + calls[last.contract].protected)

\* A (payload, signature) pair accepted on one instance is accepted on the
\* other, which has the same owner, and the first instance keeps its state.
C19_Witness ==
    /\ last.op = "check_auth"
    /\ Succeeded
    /\ \E d \in DOMAIN storage \ {last.contract} :
           /\ <<last.args.signature_payload, last.args.signature>> \in accepted[d]
           /\ storage[d] = last.pre.all[d]
           /\ storage[d]["Nonce"] = Some(1)


(***************************************************************************)
(* C21  Nonce consumption is unauthenticated: on an initialized instance   *)
(* whose nonce n is below the maximum, get_and_increment_nonce succeeds    *)
(* with no argument and no signature verification, publishes no event and  *)
(* stores n + 1.  Afterwards a check_auth or update_owner call carrying    *)
(* the owner's signature over the message bound to a nonce that such a     *)
(* call consumed is rejected and changes nothing.                          *)
(***************************************************************************)
ConsumeBelowMax ==
    /\ last.op = "get_and_increment_nonce"
    /\ last.pre.inits = 1
    /\ PreNonce < U64_MAX

\* The message the returned call would have verified at nonce n.
MessageAt(n) ==
    IF last.op = "check_auth" THEN AuthMessage(last.args.signature_payload, n)
    ELSE RotationMessage(last.args.new_owner, n)

\* Every nonce below the stored one was taken by get_and_increment_nonce,
\* and the owner signed this call for one of them.
SignedForConsumedNonce ==
    /\ Protected
    /\ last.pre.inits = 1
    /\ last.pre.calls.protected = 0
    /\ \E n \in 0..(PreNonce - 1) :
           last.args.signature = Sign(PreOwner, MessageAt(n))

C21_ConsumeUnauthenticated ==
    /\ ConsumeBelowMax =>
           /\ Succeeded
           /\ last.args = NoArgs
           /\ last.oracle = <<>>
           /\ events = last.pre.ev
           /\ PostSt = [PreSt EXCEPT !["Nonce"] = Some(PreNonce + 1)]
    /\ SignedForConsumedNonce =>
           /\ Failed
           /\ StateUntouched
           /\ last.op = "check_auth" => last.res = Trap

\* One consume on a new wallet, then the owner's check_auth signature for
\* nonce 0 traps.
C21_Witness ==
    /\ last.op = "check_auth"
    /\ last.pre.inits = 1
    /\ last.pre.calls = [consume |-> 1, protected |-> 0]
    /\ last.args.signature
           = Sign(PreOwner, AuthMessage(last.args.signature_payload, 0))
    /\ last.res = Trap
    /\ PostSt["Nonce"] = Some(1)


(***************************************************************************)
(* C22  Event-log ordering: in the events of one instance, wallet_created  *)
(* occurs exactly once and comes first; every auth_success and key_rotated *)
(* event carries the nonce that was stored before the call and bound into  *)
(* the message handed to the verification; the nonces of successive        *)
(* auth_success / key_rotated events are strictly increasing.              *)
(***************************************************************************)
IsProtectedEvent(e) == e.event.topic \in {"auth_success", "key_rotated"}

ProtectedEventsOf(c, log) == SelectSeq(EventsOf(c, log), IsProtectedEvent)

CreatedOnceAndFirst(own) ==
    own # <<>> =>
        /\ own[1].event.topic = "wallet_created"
        /\ \A i \in 2..Len(own) : own[i].event.topic # "wallet_created"

StrictlyIncreasingNonces(prot) ==
    \A i \in 1..Len(prot) : \A j \in 1..Len(prot) :
        i < j => prot[i].event.nonce < prot[j].event.nonce

\* The events the call that has just returned appended to the log.
Emitted == SubSeq(events, Len(last.pre.ev) + 1, Len(events))

C22_EventLogOrdering ==
    /\ \A c \in DOMAIN storage :
           /\ CreatedOnceAndFirst(EventsOf(c, events))
           /\ StrictlyIncreasingNonces(ProtectedEventsOf(c, events))
    /\ (Called /\ Protected /\ Succeeded) =>
           /\ Len(Emitted) = 1
           /\ Emitted[1].contract = last.contract
           /\ IsProtectedEvent(Emitted[1])
           /\ Emitted[1].event.nonce = PreNonce
           /\ Len(last.oracle) = 1
           /\ last.oracle[1].ok
           /\ last.oracle[1].msg = MessageAt(Emitted[1].event.nonce)
    /\ (Called /\ ~(Protected /\ Succeeded)) =>
           \A i \in 1..Len(Emitted) : ~IsProtectedEvent(Emitted[i])

\* A log holding the creation, an auth_success at nonce 1 (after a consume)
\* and a key_rotated at a later nonce, the rotation having just returned.
C22_Witness ==
    /\ last.op = "update_owner"
    /\ Succeeded
    /\ LET prot == ProtectedEventsOf(last.contract, events)
       IN  /\ Len(prot) = 2
           /\ prot[1].event.topic = "auth_success"
           /\ prot[1].event.nonce = 1
           /\ prot[2].event.topic = "key_rotated"
           /\ prot[2].event.nonce > 1
    /\ EventsOf(last.contract, events)[1].event.topic = "wallet_created"

====
